---- MODULE Spec2Model ----
(***************************************************************************)
(* Seat leasing of the Thompson Library API (src/app/main.py over          *)
(* src/app/store_dynamo.py), with the occupancy ingestion of               *)
(* src/app/update_chairs.py writing to the same tables.                    *)
(*                                                                         *)
(* Every HTTP handler is a sequence of store calls (get_item, put_item,    *)
(* delete_item, scan).  A store call is atomic; nothing else is.  One      *)
(* action of the model is one store call of a handler together with the    *)
(* in-process code that follows it up to the next store call.              *)
(***************************************************************************)
EXTENDS Integers, Sequences, FiniteSets, TLC

\* ------------------------------------------------------------------ bounds
MaxTicks == 2            \* the clock advances at most this many times
MaxHolds == 2            \* at most this many holdIds are ever generated
Capacity == 2            \* seats of the provisioned table

\* ------------------------------------------------------- program constants
HOLD_TTL == 120          \* main.py:123  create_hold(..., ttl_sec=120)
EXPIRES_IN == 420        \* main.py:125  "expiresIn": 420
TTL_SEC_DEFAULT == 420   \* main.py:80   ttlSec : int = 420

\* One clock step is a hold's lifetime: a hold taken at time t is not yet
\* expired after one step (expiresAt = now) and is after two.
TickSec == HOLD_TTL

Clients == {"c1", "c2"}         \* concurrently served requests
TheTable == "F1-T02"            \* the provisioned table
NoTable == "F9-T99"             \* a tableId that was never provisioned
TableIds == {TheTable, NoTable}
HoldIds == 1..MaxHolds          \* the holdIds uuid4() produces, in order
OldHoldId == 0                  \* a holdId stored before this deployment
SeatInputs == (0 - 1)..Capacity \* seatIndex values a caller may send

None == [none |-> TRUE]         \* Python None / a missing item
Absent == "absent"              \* a key the item does not carry

VARIABLES
    tables,     \* LibraryTables: tableId -> item or None
    holds,      \* LibraryHolds:  holdId  -> item or None
    uuids,      \* number of holdIds uuid4() has produced
    clock,      \* time.time(), epoch seconds
    pc,         \* per client: the store call its handler makes next
    req,        \* per client: the request being served
    tab,        \* per client: the handler's local `tab`
    hold,       \* per client: the handler's local `hold` / `h`
    scan,       \* per client: items of holds_tbl.scan() not yet visited
    out,        \* the response the last step sent, or None
    last,       \* sequential runs: the last response, where remembered
    sensor,     \* the occupancy ingestion run: its table and seats left to mark
    mode        \* "concurrent": requests overlap; "sequential": one at a
                \* time; "restarted": one at a time, any ttlSec, on a store
                \* that was in use before; "audited": the same with the
                \* default ttlSec, sweeps observed; "annotated": one at a
                \* time, confirm requests carry courseCodes and topicTags

vars == <<tables, holds, uuids, clock, pc, req, tab, hold, scan, out, last, sensor, mode>>

\* ------------------------------------------------------------ provisioning
Floor(level) == <<"F", level>>          \* f"F{level}"

SeedSeat(t, i) == [seatId |-> <<t, "S", i>>, status |-> "FREE", occupantUserId |-> Absent]

SeedTable(t, cap) ==
    [tableId |-> t, floorId |-> Floor(1), type |-> "duo", capacity |-> cap,
     seats |-> [i \in 0..(cap - 1) |-> SeedSeat(t, i)],
     isOpenToJoin |-> FALSE, topicTags |-> {}, courseCodes |-> {}]

\* ------------------------------------------------------------------- store
now == clock

get_table(table_id) == tables[table_id]

\* save_table with the put_item left out.
save_table_dropped(item) == tables' = tables

save_table(item) == tables' = [tables EXCEPT ![item.tableId] = item]

get_hold(hold_id) == holds[hold_id]

\* create_hold keeping one Hold per seat: the stored Holds that reference
\* the seat are removed when the new one is written.
create_hold_replacing(hold_id, table_id, seat_index, ttl_sec) ==
    holds' = [k \in DOMAIN holds |->
                IF k = hold_id
                THEN [holdId |-> hold_id, tableId |-> table_id,
                      seatIndex |-> seat_index, expiresAt |-> now + ttl_sec]
                ELSE IF holds[k] # None /\ holds[k].tableId = table_id
                        /\ holds[k].seatIndex = seat_index
                     THEN None
                     ELSE holds[k]]

create_hold(hold_id, table_id, seat_index, ttl_sec) ==
    holds' = [holds EXCEPT ![hold_id] =
                [holdId |-> hold_id, tableId |-> table_id,
                 seatIndex |-> seat_index, expiresAt |-> now + ttl_sec]]

delete_hold(hold_id) == holds' = [holds EXCEPT ![hold_id] = None]

len(seats) == Cardinality(DOMAIN seats)

\* set_status rebuilding the seat list from the seat it changes: the other
\* seats are dropped.
set_status_one_seat(item, idx, status) ==
    [item EXCEPT !.seats = [i \in {idx} |-> [item.seats[idx] EXCEPT !.status = status]]]

set_status(item, idx, status) == [item EXCEPT !.seats[idx].status = status]

\* --------------------------------------------------------------- responses
\* A response: the HTTP status code and the identifiers of its body.  The
\* other fields are observations of the run that the body does not carry:
\*   ttlSec  the ttlSec of the hold request;
\*   expiresAt  the deadline create_hold wrote;
\*   swept  the scanned holds that were past their deadline on a HELD seat
\*          when the sweep scanned;
\*   due    audited runs: the scanned holds that were past their
\*          deadline when the sweep scanned, whatever their seat;
\*   began  audited runs: the time of the sweep's scan;
\*   body   the isOpenToJoin, courseCodes and topicTags of a confirm request
\*          that returned success;
\*   raced  a hold request on the same seat returned a holdId while this
\*          hold request was in progress; a confirm request with the same
\*          holdId returned success while this confirm request was in
\*          progress;
\*   stale  the holdId of this confirm named no hold, or one past its
\*          deadline, when the request arrived;
\*   after  sequential runs: the response before this one, where it bears
\*          on this request (the hold that returned this confirm's holdId,
\*          its deadline not passed; a sweep that found this confirm's
\*          holdId past its deadline on a HELD seat), or None.
Response(op, code, table_id, seat_index, hold_id) ==
    [op |-> op, code |-> code, tableId |-> table_id, seatIndex |-> seat_index,
     holdId |-> hold_id, expiresIn |-> 0,
     ttlSec |-> 0, expiresAt |-> 0, swept |-> {}, due |-> {}, began |-> 0,
     body |-> None, raced |-> FALSE,
     stale |-> FALSE, after |-> None]

Failure(op, code) == Response(op, code, "-", 0 - 1, 0)

NoReq == [op |-> "none"]

Idle(c) == pc[c] = "idle"

Sequential == mode # "concurrent"

\* Requests are served concurrently, or (sequential runs) one at a time, by
\* one worker, and not during an ingestion run.
Worker == CHOOSE c \in Clients : TRUE

MayBegin(c) ==
    /\ Idle(c)
    /\ Sequential => c = Worker /\ sensor = None

\* Sequential runs remember the last response where a later claim is about
\* what follows it: a hold that returned a holdId, a sweep that found work.
Remembered(r) ==
    IF Sequential
       /\ \/ r.op = "hold" /\ r.code = 200
          \/ r.op = "health" /\ r.swept # {}
    THEN r
    ELSE None

\* The handler of client c returns response r.
Return(c, r) ==
    /\ pc' = [pc EXCEPT ![c] = "idle"]
    /\ req' = [req EXCEPT ![c] = NoReq]
    /\ tab' = [tab EXCEPT ![c] = None]
    /\ hold' = [hold EXCEPT ![c] = None]
    /\ scan' = [scan EXCEPT ![c] = {}]
    /\ out' = r
    /\ last' = Remembered(r)

\* The handler of client c goes on to its store call `next`.
Goto(c, next, request, t, h, s) ==
    /\ pc' = [pc EXCEPT ![c] = next]
    /\ req' = [req EXCEPT ![c] = request]
    /\ tab' = [tab EXCEPT ![c] = t]
    /\ hold' = [hold EXCEPT ![c] = h]
    /\ scan' = [scan EXCEPT ![c] = s]
    /\ out' = None
    /\ last' = IF Idle(c) THEN None ELSE last

\* ------------------------------------------------------------- POST /hold
\* hold_check with the seat test of confirm_seat: only OCCUPIED conflicts.
hold_check_occupied_only(item, seat_index) ==
    IF item = None THEN 404
    ELSE IF seat_index < 0 \/ seat_index >= item.capacity THEN 400
    ELSE IF item.seats[seat_index].status = "OCCUPIED" THEN 409
    ELSE 200

\* The checks of hold_seat on the fetched item, in the order of the code:
\* the status code of the failure, or 200.
hold_check(item, seat_index) ==
    IF item = None THEN 404
    ELSE IF seat_index < 0 \/ seat_index >= item.capacity THEN 400
    ELSE IF item.seats[seat_index].status # "FREE" THEN 409
    ELSE 200

\* The ttlSec values callers send: the default of HoldRequest, and in
\* restarted runs also a shorter one.
TtlInputs == IF mode = "restarted" THEN {60, TTL_SEC_DEFAULT} ELSE {TTL_SEC_DEFAULT}

\* The ttl_sec argument hold_seat passes to create_hold, had it passed the
\* caller's.
hold_ttl_sec_requested(request) == request.ttlSec

\* The ttl_sec argument hold_seat passes to create_hold.
hold_ttl_sec(request) == HOLD_TTL

Holding(d) == pc[d] \in {"hold_save", "hold_create"}

HoldsInProgress == Cardinality({d \in Clients : Holding(d)})

\* get_table, the three checks, seat["status"] = "HELD" on the local copy.
hold_seat(c, table_id, seat_index, ttl_sec) ==
    /\ MayBegin(c)
    /\ LET item == get_table(table_id)
           code == hold_check(item, seat_index)
       IN IF code # 200
          THEN Return(c, Failure("hold", code))
          ELSE /\ uuids + HoldsInProgress < MaxHolds
               /\ Goto(c, "hold_save",
                       [op |-> "hold", tableId |-> table_id,
                        seatIndex |-> seat_index, ttlSec |-> ttl_sec,
                        raced |-> FALSE],
                       set_status(item, seat_index, "HELD"), None, {})
    /\ UNCHANGED <<tables, holds, uuids, clock, sensor, mode>>

\* save_table(tab); the handler does not read `tab` again.
hold_seat_save(c) ==
    /\ pc[c] = "hold_save"
    /\ save_table(tab[c])
    /\ Goto(c, "hold_create", req[c], None, None, {})
    /\ UNCHANGED <<holds, uuids, clock, sensor, mode>>

SameSeatHolders(c) ==
    {d \in Clients \ {c} :
        /\ Holding(d)
        /\ req[d].tableId = req[c].tableId
        /\ req[d].seatIndex = req[c].seatIndex}

\* create_hold(req.tableId, req.seatIndex, ttl_sec=120) and the response.
hold_seat_create(c) ==
    /\ pc[c] = "hold_create"
    /\ LET hold_id == uuids + 1
       IN /\ uuids' = hold_id
          /\ create_hold(hold_id, req[c].tableId, req[c].seatIndex, hold_ttl_sec(req[c]))
          /\ pc' = [pc EXCEPT ![c] = "idle"]
          /\ req' = [d \in Clients |->
                       IF d = c THEN NoReq
                       ELSE IF d \in SameSeatHolders(c)
                            THEN [req[d] EXCEPT !.raced = TRUE]
                            ELSE req[d]]
          /\ tab' = [tab EXCEPT ![c] = None]
          /\ out' = [Response("hold", 200, req[c].tableId, req[c].seatIndex, hold_id)
                       EXCEPT !.expiresIn = EXPIRES_IN, !.raced = req[c].raced,
                              !.ttlSec = req[c].ttlSec,
                              !.expiresAt = holds'[hold_id].expiresAt]
          /\ last' = Remembered(out')
    /\ UNCHANGED <<tables, clock, hold, scan, sensor, mode>>

\* ---------------------------------------------------------- POST /confirm
\* confirm_check with the seat test of hold_seat: any seat not FREE conflicts.
confirm_check_free_only(item, idx) ==
    IF item = None THEN 404
    ELSE IF idx < 0 \/ idx >= len(item.seats) THEN 400
    ELSE IF item.seats[idx].status # "FREE" THEN 409
    ELSE 200

\* confirm_check with the strict test: any seat not HELD conflicts.
confirm_check_held_only(item, idx) ==
    IF item = None THEN 404
    ELSE IF idx < 0 \/ idx >= len(item.seats) THEN 400
    ELSE IF item.seats[idx].status # "HELD" THEN 409
    ELSE 200

\* The checks of confirm_seat on the fetched table, in the order of the code.
confirm_check(item, idx) ==
    IF item = None THEN 404
    ELSE IF idx < 0 \/ idx >= len(item.seats) THEN 400
    ELSE IF item.seats[idx].status = "OCCUPIED" THEN 409
    ELSE 200

is_expired(h) == h.expiresAt < now

\* The response before this confirm request, where it bears on it.
Following(hold_id) ==
    IF last = None THEN None
    ELSE IF last.op = "hold" /\ last.holdId = hold_id /\ last.expiresAt >= clock THEN last
    ELSE IF last.op = "health" /\ hold_id \in {h.holdId : h \in last.swept} THEN last
    ELSE None

\* A confirm that follows the hold of its holdId does so within the hold's
\* deadline, or not at all.
InTime(c) ==
    IF req[c].after # None /\ req[c].after.op = "hold" /\ req[c].after.expiresAt < clock
    THEN None
    ELSE req[c].after

\* The courseCodes and topicTags a confirm request carries: the defaults of
\* ConfirmRequest, and in the runs with annotating callers also a course and
\* a topic.
MetadataInputs ==
    IF mode = "annotated"
    THEN {[courseCodes |-> {}, topicTags |-> {}],
          [courseCodes |-> {<<"c", "s">>}, topicTags |-> {"quiet"}]}
    ELSE {[courseCodes |-> {}, topicTags |-> {}]}

\* get_hold(req.holdId)
confirm_seat(c, hold_id, isOpenToJoin, courseCodes, topicTags) ==
    /\ MayBegin(c)
    /\ LET h == get_hold(hold_id)
       IN IF h = None
          THEN Return(c, [Failure("confirm", 410) EXCEPT
                             !.stale = TRUE, !.after = Following(hold_id)])
          ELSE Goto(c, "confirm_get_table",
                    [op |-> "confirm", holdId |-> hold_id,
                     isOpenToJoin |-> isOpenToJoin, courseCodes |-> courseCodes,
                     topicTags |-> topicTags, stale |-> h.expiresAt < clock,
                     after |-> Following(hold_id), raced |-> FALSE],
                    None, h, {})
    /\ UNCHANGED <<tables, holds, uuids, clock, sensor, mode>>

\* get_table(hold["tableId"]), the checks, the mutation of the local copy.
confirm_seat_get_table(c) ==
    /\ pc[c] = "confirm_get_table"
    /\ LET item == get_table(hold[c].tableId)
           idx == hold[c].seatIndex
           code == confirm_check(item, idx)
       IN IF code # 200
          THEN Return(c, [Failure("confirm", code) EXCEPT
                             !.stale = req[c].stale, !.after = InTime(c),
                             !.raced = req[c].raced])
          ELSE Goto(c, "confirm_save", req[c],
                    [set_status(item, idx, "OCCUPIED")
                        EXCEPT !.isOpenToJoin = req[c].isOpenToJoin],
                    hold[c], {})
    /\ UNCHANGED <<tables, holds, uuids, clock, sensor, mode>>

\* save_table(tab); of `tab` the handler reads only tab["tableId"] again,
\* the key it was fetched by, hold["tableId"].
confirm_seat_save(c) ==
    /\ pc[c] = "confirm_save"
    /\ save_table(tab[c])
    /\ Goto(c, "confirm_delete", req[c], None, hold[c], {})
    /\ UNCHANGED <<holds, uuids, clock, sensor, mode>>

SameHoldConfirmers(c) ==
    {d \in Clients \ {c} : req[d].op = "confirm" /\ req[d].holdId = req[c].holdId}

\* delete_hold(req.holdId) and the response.
confirm_seat_delete(c) ==
    /\ pc[c] = "confirm_delete"
    /\ delete_hold(req[c].holdId)
    /\ pc' = [pc EXCEPT ![c] = "idle"]
    /\ req' = [d \in Clients |->
                 IF d = c THEN NoReq
                 ELSE IF d \in SameHoldConfirmers(c)
                      THEN [req[d] EXCEPT !.raced = TRUE]
                      ELSE req[d]]
    /\ tab' = [tab EXCEPT ![c] = None]
    /\ hold' = [hold EXCEPT ![c] = None]
    /\ scan' = [scan EXCEPT ![c] = {}]
    /\ out' = [Response("confirm", 200, hold[c].tableId, hold[c].seatIndex, req[c].holdId)
                 EXCEPT !.stale = req[c].stale, !.after = InTime(c),
                        !.raced = req[c].raced,
                        !.body = [isOpenToJoin |-> req[c].isOpenToJoin,
                                  courseCodes |-> req[c].courseCodes,
                                  topicTags |-> req[c].topicTags]]
    /\ last' = Remembered(out')
    /\ UNCHANGED <<tables, uuids, clock, sensor, mode>>

\* ------------------------------------------- POST /release/{table}/{seat}
\* release_check with a seat test like hold_seat's: a FREE seat conflicts.
release_check_free_conflicts(item, seat_index) ==
    IF item = None THEN 404
    ELSE IF seat_index < 0 \/ seat_index >= item.capacity THEN 400
    ELSE IF item.seats[seat_index].status = "FREE" THEN 409
    ELSE 200

\* The checks of release_seat on the fetched item, in the order of the code.
release_check(item, seat_index) ==
    IF item = None THEN 404
    ELSE IF seat_index < 0 \/ seat_index >= item.capacity THEN 400
    ELSE 200

\* get_table, the two checks, tab["seats"][seat_index]["status"] = "FREE".
release_seat(c, table_id, seat_index) ==
    /\ MayBegin(c)
    /\ LET item == get_table(table_id)
           code == release_check(item, seat_index)
       IN IF code # 200
          THEN Return(c, Failure("release", code))
          ELSE Goto(c, "release_save",
                    [op |-> "release", tableId |-> table_id, seatIndex |-> seat_index],
                    set_status(item, seat_index, "FREE"), None, {})
    /\ UNCHANGED <<tables, holds, uuids, clock, sensor, mode>>

\* save_table(tab) and the response.
release_seat_save(c) ==
    /\ pc[c] = "release_save"
    /\ save_table(tab[c])
    /\ Return(c, Response("release", 200, req[c].tableId, req[c].seatIndex, 0))
    /\ UNCHANGED <<holds, uuids, clock, sensor, mode>>

\* ----------------------------------------------- GET /health, expire_holds
\* still_held with the lower bound off by one: seat 0 is never reclaimed.
still_held_from_one(item, idx) ==
    /\ 0 < idx /\ idx < len(item.seats)
    /\ item.seats[idx].status = "HELD"

\* The guard of the sweep's seat-side effect.
still_held(item, idx) ==
    /\ 0 <= idx /\ idx < len(item.seats)
    /\ item.seats[idx].status = "HELD"

StoredHolds == {holds[k] : k \in {k \in DOMAIN holds : holds[k] # None}}

Held(table_id, idx) ==
    /\ tables[table_id] # None
    /\ idx \in DOMAIN tables[table_id].seats
    /\ tables[table_id].seats[idx].status = "HELD"

\* The sweep goes on with the items `rest` of its scan, or, none being left,
\* expire_holds returns and health answers {"ok": True}.
expire_holds_continue(c, request, rest) ==
    IF rest = {}
    THEN Return(c, [Response("health", 200, "-", 0 - 1, 0) EXCEPT
                       !.swept = request.swept, !.due = request.due,
                       !.began = request.began])
    ELSE Goto(c, "sweep_loop", request, None, None, rest)

\* holds_tbl.scan()
health(c) ==
    /\ MayBegin(c)
    /\ expire_holds_continue(c,
          [op |-> "health",
           swept |-> {h \in StoredHolds : h.expiresAt < clock /\ Held(h.tableId, h.seatIndex)},
           due |-> IF mode = "audited"
                   THEN {h \in StoredHolds : h.expiresAt < clock} ELSE {},
           began |-> IF mode = "audited" THEN clock ELSE 0],
          StoredHolds)
    /\ UNCHANGED <<tables, holds, uuids, clock, sensor, mode>>

\* expire_holds_visit deleting a hold only together with its seat's reclaim:
\* a hold past its deadline whose seat is not HELD, or whose table is
\* missing, stays in the store.
expire_holds_visit_seat_only(c) ==
    /\ pc[c] = "sweep_loop"
    /\ \E h \in scan[c] :
          LET item == get_table(h.tableId)
          IN IF is_expired(h) /\ item # None /\ still_held(item, h.seatIndex)
             THEN Goto(c, "sweep_save", req[c],
                       set_status(item, h.seatIndex, "FREE"), h, scan[c])
             ELSE expire_holds_continue(c, req[c], scan[c] \ {h})
    /\ UNCHANGED <<tables, holds, uuids, clock, sensor, mode>>

\* One iteration of the loop up to its first write: the deadline test,
\* get_table, the seat test.  The scan's order is the store's, not the
\* program's: any item not yet visited may be the next.
expire_holds_visit(c) ==
    /\ pc[c] = "sweep_loop"
    /\ \E h \in scan[c] :
          IF is_expired(h)
          THEN LET item == get_table(h.tableId)
               IN IF item # None /\ still_held(item, h.seatIndex)
                  THEN Goto(c, "sweep_save", req[c],
                            set_status(item, h.seatIndex, "FREE"), h, scan[c])
                  ELSE Goto(c, "sweep_delete", req[c], None, h, scan[c])
          ELSE expire_holds_continue(c, req[c], scan[c] \ {h})
    /\ UNCHANGED <<tables, holds, uuids, clock, sensor, mode>>

\* save_table(tab)
expire_holds_save(c) ==
    /\ pc[c] = "sweep_save"
    /\ save_table(tab[c])
    /\ Goto(c, "sweep_delete", req[c], None, hold[c], scan[c])
    /\ UNCHANGED <<holds, uuids, clock, sensor, mode>>

\* delete_hold(h["holdId"])
expire_holds_delete(c) ==
    /\ pc[c] = "sweep_delete"
    /\ delete_hold(hold[c].holdId)
    /\ expire_holds_continue(c, req[c], scan[c] \ {hold[c]})
    /\ UNCHANGED <<tables, uuids, clock, sensor, mode>>

\* ------------------------------------------------------- GET /holds/{id}
\* The status code of get_hold_debug: a read of the store and nothing else.
get_hold_debug(hold_id) == IF get_hold(hold_id) = None THEN 404 ELSE 200

\* ------------------------------- GET /floor/{floor_id}/tables, GET /match
LastFloor == 11          \* main.py:177  range(1, 12)

\* The tables the store holds, as a scan enumerates them.
StoredTables == {tables[t] : t \in {t \in DOMAIN tables : tables[t] # None}}

\* The index GSI_FloorId: the keys of the stored tables, by floorId.
GSI_FloorId ==
    [f \in {item.floorId : item \in StoredTables} |->
        {item.tableId : item \in {i \in StoredTables : i.floorId = f}}]

\* tables_tbl.query(IndexName="GSI_FloorId", KeyConditionExpression=Key("floorId").eq(floor_id))
query_floor(floor_id) ==
    LET index == GSI_FloorId
    IN IF floor_id \in DOMAIN index
       THEN {tables[t] : t \in index[floor_id]}
       ELSE {}

\* tables_tbl.scan() with no filter: every table.
scan_floor_unfiltered(floor_id) == StoredTables

\* tables_tbl.scan(FilterExpression=Attr("floorId").eq(floor_id))
scan_floor(floor_id) == {item \in StoredTables : item.floorId = floor_id}

\* What the store does with the calls of a request: the index query works or
\* raises, the scan works or raises.
StoreConditions == [query : BOOLEAN, scan : BOOLEAN]

\* get_floor_tables: the items, with the path taken; or "raise", the scan
\* having failed after the query.
get_floor_tables(floor_id, store) ==
    IF store.query THEN [path |-> "query", items |-> query_floor(floor_id)]
    ELSE IF store.scan THEN [path |-> "scan", items |-> scan_floor(floor_id)]
    ELSE [path |-> "raise", items |-> {}]

\* The response of the two listing routes: `listed` is what get_floor_tables
\* returned to the handler, `items` the body.
Listing(op, code, floor_id, courses, open_only, store, listed, items) ==
    [op |-> op, code |-> code, floorId |-> floor_id, courses |-> courses,
     openOnly |-> open_only, store |-> store, listed |-> listed, items |-> items]

\* GET /floor/{floor_id}/tables
list_floor_tables(c, floor_id, store) ==
    /\ MayBegin(c)
    /\ LET got == get_floor_tables(floor_id, store)
       IN IF got.path = "raise"
          THEN Return(c, Listing("floor", 500, floor_id, <<>>, FALSE, store, {}, {}))
          ELSE Return(c, Listing("floor", 200, floor_id, <<>>, FALSE, store, got.items, got.items))
    /\ UNCHANGED <<tables, holds, uuids, clock, sensor, mode>>

\* str.upper() on the letters course codes are written with.
upper_char(ch) ==
    CASE ch = "c" -> "C"
      [] ch = "s" -> "S"
      [] ch = "m" -> "M"
      [] OTHER -> ch

\* A comparison that leaves the case as it is.
upper_as_is(code) == code

\* c.upper()
upper(code) == [k \in DOMAIN code |-> upper_char(code[k])]

\* The filter of match_tables on one listed table: TRUE if it is kept.
match_keeps(t, courses, open_only) ==
    /\ ~(open_only /\ ~t.isOpenToJoin)
    /\ courses # <<>> =>
          LET have == {upper(code) : code \in t.courseCodes}
              want == {upper(courses[k]) : k \in DOMAIN courses}
          IN have \cap want # {}

\* GET /match.  floor_id = <<>> is the parameter left out (or empty).
match_tables(c, floor_id, courses, open_only, store) ==
    /\ MayBegin(c)
    /\ LET floors == IF floor_id # <<>> THEN {floor_id}
                     ELSE {Floor(i) : i \in 1..LastFloor}
           listed == UNION {get_floor_tables(f, store).items : f \in floors}
       IN IF get_floor_tables(floor_id, store).path = "raise"
          THEN Return(c, Listing("match", 500, floor_id, courses, open_only, store, {}, {}))
          ELSE Return(c, Listing("match", 200, floor_id, courses, open_only, store, listed,
                                 {t \in listed : match_keeps(t, courses, open_only)}))
    /\ UNCHANGED <<tables, holds, uuids, clock, sensor, mode>>

\* ------------------------------------------------------------ environment
\* time.time() advances.
Tick ==
    /\ clock < MaxTicks * TickSec
    /\ clock' = clock + TickSec
    /\ out' = None
    /\ UNCHANGED <<tables, holds, uuids, pc, req, tab, hold, scan, last, sensor, mode>>

\* DynamoDB's TTL feature removes a hold item whose expiresAt has passed.
ttl_expire(hold_id) ==
    /\ holds[hold_id] # None
    /\ holds[hold_id].expiresAt < now
    /\ delete_hold(hold_id)
    /\ out' = None
    /\ UNCHANGED <<tables, uuids, clock, pc, req, tab, hold, scan, last, sensor, mode>>

\* A store call raises (botocore ClientError, a connection error): no handler
\* catches it, the request ends there with what it has written so far, and
\* the framework answers 500.  The call is the first of a handler (the
\* request `op` arrives and its get_item or scan fails) or the one the handler
\* of client c was about to make; expire_holds has no try/except round an
\* iteration of its loop, so a call that raises there ends the sweep (the
\* response keeps the ghost `swept` of the scan).
store_fault(c) ==
    /\ \/ /\ MayBegin(c)
          /\ \E op \in {"hold", "confirm", "release", "health"} :
                Return(c, Failure(op, 500))
       \/ /\ ~Idle(c)
          /\ Return(c, [Failure(req[c].op, 500) EXCEPT
                          !.swept = IF req[c].op = "health" THEN req[c].swept ELSE {}])
    /\ UNCHANGED <<tables, holds, uuids, clock, sensor, mode>>

\* ------------------------------------- occupancy ingestion (update_chairs)
Range(count) == [k \in 1..count |-> k - 1]      \* list(range(count))

\* get_item and the bounds test of the loop: the indices in range are left
\* to mark.  An empty list, or a missing table, returns at once.
update_table_with_occupied_chairs(table_id, occupied_seat_indices) ==
    /\ sensor = None
    /\ Sequential => Idle(Worker)
    /\ occupied_seat_indices # <<>>
    /\ LET item == get_table(table_id)
       IN /\ item # None
          /\ LET n == len(item.seats)
                 todo == SelectSeq(occupied_seat_indices, LAMBDA i : ~(i < 0 \/ i >= n))
             IN sensor' = IF todo = <<>> THEN None
                          ELSE [tableId |-> table_id, todo |-> todo]
    /\ out' = None
    /\ UNCHANGED <<tables, holds, uuids, clock, pc, req, tab, hold, scan, last, mode>>

\* One update_item of the loop: SET seats[i].status = OCCUPIED,
\* seats[i].occupantUserId = student_{i+1}, on the item as stored.
update_item_occupied ==
    /\ sensor # None
    /\ LET i == Head(sensor.todo)
           item == tables[sensor.tableId]
       IN /\ item # None                        \* attribute_exists(tableId)
          /\ tables' = [tables EXCEPT ![sensor.tableId] =
                          [item EXCEPT !.seats[i].status = "OCCUPIED",
                                       !.seats[i].occupantUserId = <<"student", i + 1>>]]
    /\ sensor' = IF Tail(sensor.todo) = <<>> THEN None
                 ELSE [sensor EXCEPT !.todo = Tail(@)]
    /\ out' = None
    /\ UNCHANGED <<holds, uuids, clock, pc, req, tab, hold, scan, last, mode>>

\* ---------------------------------------------------------- specification
InitStore ==
    /\ tables = [t \in TableIds |-> IF t = TheTable THEN SeedTable(t, Capacity) ELSE None]
    /\ holds = [k \in HoldIds |-> None]
    /\ uuids = 0
    /\ clock = 0
    /\ pc = [c \in Clients |-> "idle"]
    /\ req = [c \in Clients |-> NoReq]
    /\ tab = [c \in Clients |-> None]
    /\ hold = [c \in Clients |-> None]
    /\ scan = [c \in Clients |-> {}]
    /\ out = None
    /\ last = None
    /\ sensor = None

Init == InitStore /\ mode = "concurrent"

InitSeq == InitStore /\ mode = "sequential"

\* Hold items LibraryHolds may carry from before LibraryTables was provisioned
\* anew: on a table that is no longer there, on a seat index past the end of
\* a table that has shrunk, on a seat that is still there.  Their deadline
\* has passed and the store's TTL deletion has not removed them yet.
OldHolds ==
    {[holdId |-> OldHoldId, tableId |-> NoTable, seatIndex |-> 0, expiresAt |-> 0],
     [holdId |-> OldHoldId, tableId |-> TheTable, seatIndex |-> Capacity, expiresAt |-> 0],
     [holdId |-> OldHoldId, tableId |-> TheTable, seatIndex |-> 0, expiresAt |-> 0]}

\* The process starts late on a store that was in use: the tables provisioned
\* anew, LibraryHolds with one old item.
InitOldStore ==
    /\ tables = [t \in TableIds |-> IF t = TheTable THEN SeedTable(t, Capacity) ELSE None]
    /\ \E old \in OldHolds :
          holds = [k \in {OldHoldId} \cup HoldIds |-> IF k = OldHoldId THEN old ELSE None]
    /\ uuids = 0
    /\ clock = (MaxTicks - 1) * TickSec
    /\ pc = [c \in Clients |-> "idle"]
    /\ req = [c \in Clients |-> NoReq]
    /\ tab = [c \in Clients |-> None]
    /\ hold = [c \in Clients |-> None]
    /\ scan = [c \in Clients |-> {}]
    /\ out = None
    /\ last = None
    /\ sensor = None

InitOld == InitOldStore /\ mode = "restarted"

InitAudit == InitOldStore /\ mode = "audited"

Next ==
    \/ \E c \in Clients, t \in TableIds, i \in SeatInputs, ttl \in TtlInputs :
          hold_seat(c, t, i, ttl)
    \/ \E c \in Clients : hold_seat_save(c)
    \/ \E c \in Clients : hold_seat_create(c)
    \/ \E c \in Clients, k \in DOMAIN holds, o \in BOOLEAN, m \in MetadataInputs :
          confirm_seat(c, k, o, m.courseCodes, m.topicTags)
    \/ \E c \in Clients : confirm_seat_get_table(c)
    \/ \E c \in Clients : confirm_seat_save(c)
    \/ \E c \in Clients : confirm_seat_delete(c)
    \/ \E c \in Clients, t \in TableIds, i \in SeatInputs : release_seat(c, t, i)
    \/ \E c \in Clients : release_seat_save(c)
    \/ \E c \in Clients : health(c)
    \/ \E c \in Clients : expire_holds_visit(c)
    \/ \E c \in Clients : expire_holds_save(c)
    \/ \E c \in Clients : expire_holds_delete(c)
    \/ Tick
    \/ \E k \in DOMAIN holds : ttl_expire(k)

\* Requests served concurrently.
Spec == Init /\ [][Next]_vars

\* Requests served one at a time.
SpecSeq == InitSeq /\ [][Next]_vars

NextSensor ==
    \/ Next
    \/ \E t \in TableIds, n \in 1..(Capacity + 1) :
          update_table_with_occupied_chairs(t, Range(n))
    \/ update_item_occupied

\* Requests and ingestion runs served one at a time.
SpecSensor == InitSeq /\ [][NextSensor]_vars

\* The tables of a store that carries course codes and open tables:
\* tableId, floorId.  Those of floor 1 are open or not and list a course or
\* none; those of floors 11 and 12 are open, one lists a course.
ListedTables == {<<"F1-T01", Floor(1)>>, <<"F1-T02", Floor(1)>>}

TopTable == <<"F11-T01", Floor(LastFloor)>>

UpperTable == <<"F12-T01", Floor(LastFloor + 1)>>

CourseLists == {{}, {<<"c", "s">>}, {<<"C", "S">>}}

\* A provisioned table with the metadata the seed source gives it.
ListedTable(t, f, open, codes) ==
    [SeedTable(t, 1) EXCEPT !.floorId = f, !.isOpenToJoin = open, !.courseCodes = codes]

InitMatch ==
    /\ \E open \in [ListedTables -> BOOLEAN], codes \in [ListedTables -> CourseLists] :
          tables = [t \in {x[1] : x \in ListedTables \cup {TopTable, UpperTable}} |->
                       IF t = TopTable[1]
                       THEN ListedTable(t, TopTable[2], TRUE, {<<"c", "s">>})
                       ELSE IF t = UpperTable[1]
                       THEN ListedTable(t, UpperTable[2], TRUE, {})
                       ELSE LET x == CHOOSE x \in ListedTables : x[1] = t
                            IN ListedTable(t, x[2], open[x], codes[x])]
    /\ holds = [k \in HoldIds |-> None]
    /\ uuids = 0
    /\ clock = 0
    /\ pc = [c \in Clients |-> "idle"]
    /\ req = [c \in Clients |-> NoReq]
    /\ tab = [c \in Clients |-> None]
    /\ hold = [c \in Clients |-> None]
    /\ scan = [c \in Clients |-> {}]
    /\ out = None
    /\ last = None
    /\ sensor = None
    /\ mode = "sequential"

FloorInputs == {<<>>, Floor(1), Floor(LastFloor), Floor(LastFloor + 1)}

CourseInputs == {<<>>, <<<<"C", "S">>>>, <<<<"c", "s">>, <<"m", "a">>>>}

NextMatch ==
    \/ \E c \in Clients, f \in FloorInputs \ {<<>>}, store \in StoreConditions :
          list_floor_tables(c, f, store)
    \/ \E c \in Clients, f \in FloorInputs, courses \in CourseInputs,
          open_only \in BOOLEAN, store \in StoreConditions :
          match_tables(c, f, courses, open_only, store)

\* Listing requests on a store nothing writes to.
SpecMatch == InitMatch /\ [][NextMatch]_vars

\* A store call of a request in progress is made.
Step(c) ==
    \/ hold_seat_save(c) \/ hold_seat_create(c)
    \/ confirm_seat_get_table(c) \/ confirm_seat_save(c) \/ confirm_seat_delete(c)
    \/ release_seat_save(c)
    \/ expire_holds_visit(c) \/ expire_holds_save(c) \/ expire_holds_delete(c)

\* Time keeps advancing (as far as the model's clock goes), every request in
\* progress is served to its end, and GET /health is called again and again.
Fairness ==
    /\ WF_vars(Tick)
    /\ \A c \in Clients : WF_vars(Step(c))
    /\ SF_vars(\E c \in Clients : health(c))

\* Requests served one at a time, with the sweep run repeatedly.
SpecLive == InitSeq /\ [][Next]_vars /\ Fairness

NextFault ==
    \/ Next
    \/ \E c \in Clients : store_fault(c)

\* Requests served one at a time by a store whose calls may fail.
SpecFault == InitSeq /\ [][NextFault]_vars

\* Requests served one at a time after a restart; callers send any ttlSec.
SpecOld == InitOld /\ [][Next]_vars

\* Requests served one at a time after a restart, the sweeps observed.
SpecAudit == InitAudit /\ [][Next]_vars

InitMeta == InitStore /\ mode = "annotated"

\* Requests served one at a time; callers send courseCodes and topicTags
\* with their confirm requests.
SpecMeta == InitMeta /\ [][Next]_vars

\* ------------------------------------------------------------------ claims
Sent(op) == out # None /\ out.op = op

Seats == {<<t, i>> \in TableIds \X (0..(Capacity - 1)) : tables[t] # None}

Seat(t, i) == tables[t].seats[i]

HoldsOn(t, i) == {h \in StoredHolds : h.tableId = t /\ h.seatIndex = i}

\* C1: of two hold requests on the same seat that run concurrently, at most
\* one returns a holdId: no hold request returns a holdId after a hold
\* request on the same seat returned one while it was in progress.
C1_NoDoubleHold == ~(Sent("hold") /\ out.code = 200 /\ out.raced)

\* C2: at most one stored Hold references a seat whose status is HELD.
C2_OneHoldPerHeldSeat ==
    \A s \in Seats :
        Seat(s[1], s[2]).status = "HELD" => Cardinality(HoldsOn(s[1], s[2])) <= 1

\* C3: a seat whose status is FREE is referenced by no stored Hold whose
\* deadline has not passed.
C3_FreeSeatHasNoLiveHold ==
    \A s \in Seats :
        Seat(s[1], s[2]).status = "FREE" =>
            \A h \in HoldsOn(s[1], s[2]) : h.expiresAt < clock

\* C4: a confirm whose holdId names no Hold, or a Hold whose deadline had
\* passed when the request arrived, returns 410.
C4_StaleConfirmIsGone == Sent("confirm") /\ out.stale => out.code = 410

FollowsHold == Sent("confirm") /\ out.after # None /\ out.after.op = "hold"

\* C5: a confirm that directly follows the successful hold of its holdId,
\* within the deadline, returns 200 with the hold's tableId and seatIndex,
\* leaves that seat OCCUPIED and the Hold deleted (GET /holds/{holdId}: 404).
C5_HoldThenConfirm ==
    FollowsHold =>
        /\ out.code = 200
        /\ out.tableId = out.after.tableId
        /\ out.seatIndex = out.after.seatIndex
        /\ Seat(out.after.tableId, out.after.seatIndex).status = "OCCUPIED"
        /\ get_hold_debug(out.after.holdId) = 404

C5_Witness == FollowsHold /\ out.code = 200

FollowsSweep == Sent("confirm") /\ out.after # None /\ out.after.op = "health"

\* C6: when a sweep returns, every Hold that was past its deadline on a HELD
\* seat when the sweep scanned is gone and its seat is FREE; a confirm with
\* such a holdId that directly follows the sweep returns 410.
C6_SweepReclaims ==
    /\ Sent("health") =>
          \A h \in out.swept :
              /\ holds[h.holdId] = None
              /\ Seat(h.tableId, h.seatIndex).status = "FREE"
    /\ FollowsSweep => out.code = 410

C6_Witness == FollowsSweep /\ out.code = 410

\* C7: the sweep's write-back of a table changes no seat that is OCCUPIED.
C7_SweepKeepsOccupied ==
    [][\A c \in Clients :
          pc[c] = "sweep_save" /\ pc'[c] # "sweep_save" =>
              \A s \in Seats :
                  Seat(s[1], s[2]).status = "OCCUPIED" =>
                      tables'[s[1]].seats[s[2]].status = "OCCUPIED"]_vars

\* C8: a release that returns 200 leaves its seat FREE and with no
\* occupantUserId.
C8_ReleaseClearsSeat ==
    Sent("release") /\ out.code = 200 =>
        /\ Seat(out.tableId, out.seatIndex).status = "FREE"
        /\ Seat(out.tableId, out.seatIndex).occupantUserId = Absent

\* C9: every seat's status is FREE, HELD or OCCUPIED, and a seat carries an
\* occupantUserId only while its status is OCCUPIED.
C9_SeatWellFormed ==
    \A s \in Seats :
        /\ Seat(s[1], s[2]).status \in {"FREE", "HELD", "OCCUPIED"}
        /\ Seat(s[1], s[2]).occupantUserId # Absent => Seat(s[1], s[2]).status = "OCCUPIED"

\* What hold must answer for a table item and a seat index, by the claim.
HoldMustAnswer(item, i) ==
    IF item = None THEN 404
    ELSE IF ~(0 <= i /\ i < item.capacity) THEN 400
    ELSE IF item.seats[i].status \in {"HELD", "OCCUPIED"} THEN 409
    ELSE 200

\* C10: hold answers 404 for a missing table, else 400 for a seatIndex out
\* of range, else 409 for a seat that is HELD or OCCUPIED; on each of these
\* it writes no table and creates no Hold; otherwise it goes on to write.
C10_HoldFailures ==
    [][\A c \in Clients :
          pc[c] = "idle" /\ (pc'[c] = "hold_save" \/ (out' # None /\ out'.op = "hold")) =>
              \A t \in TableIds, i \in SeatInputs, ttl \in TtlInputs :
                  hold_seat(c, t, i, ttl) =>
                      LET code == HoldMustAnswer(tables[t], i)
                      IN IF code # 200
                         THEN /\ out' = Failure("hold", code)
                              /\ pc'[c] = "idle"
                              /\ tables' = tables
                              /\ holds' = holds
                         ELSE pc'[c] = "hold_save"]_vars

C10_Witness == Sent("hold") /\ out.code = 409

\* What confirm must answer for the Hold item and the table item it fetches,
\* by the claim.
ConfirmMustAnswer(h, item) ==
    IF h = None THEN 410
    ELSE IF item = None THEN 404
    ELSE IF ~(0 <= h.seatIndex /\ h.seatIndex < Cardinality(DOMAIN item.seats)) THEN 400
    ELSE IF item.seats[h.seatIndex].status = "OCCUPIED" THEN 409
    ELSE 200

\* C11: confirm answers 410 when the Hold is absent, else 404 when its table
\* is absent, else 400 when its seatIndex is out of bounds, else 409 when the
\* seat is OCCUPIED, else goes on to write; it answers 410, 404, 400 or 409
\* only before its first write, and the step that answers so writes no table
\* and deletes no Hold.
C11_ConfirmFailures ==
    [][\A c \in Clients :
          /\ pc[c] = "idle" /\ (pc'[c] = "confirm_get_table" \/ (out' # None /\ out'.op = "confirm")) =>
                \A k \in DOMAIN holds, o \in BOOLEAN, m \in MetadataInputs :
                    confirm_seat(c, k, o, m.courseCodes, m.topicTags) =>
                        IF holds[k] = None
                        THEN /\ out'.code = 410
                             /\ tables' = tables /\ holds' = holds
                        ELSE pc'[c] = "confirm_get_table" /\ hold'[c] = holds[k]
          /\ pc[c] = "confirm_get_table" /\ pc'[c] # "confirm_get_table" =>
                LET code == ConfirmMustAnswer(hold[c], tables[hold[c].tableId])
                IN IF code # 200
                   THEN /\ out'.op = "confirm" /\ out'.code = code
                        /\ tables' = tables /\ holds' = holds
                   ELSE pc'[c] = "confirm_save"
          /\ pc[c] # pc'[c] /\ out' # None /\ out'.op = "confirm" /\ out'.code # 200 =>
                pc[c] \in {"idle", "confirm_get_table"}]_vars

C11_Witness == Sent("confirm") /\ out.code = 400

\* What release must answer for a table item and a seat index, by the claim.
ReleaseMustAnswer(item, i) ==
    IF item = None THEN 404
    ELSE IF ~(0 <= i /\ i < item.capacity) THEN 400
    ELSE 200

\* C12: release answers 404 for a missing table and 400 for a seatIndex out
\* of range, and then writes nothing; for every other input it goes on to
\* its write and answers 200, whatever the seat's status.
C12_ReleaseFailures ==
    [][\A c \in Clients :
          /\ pc[c] = "idle" /\ (pc'[c] = "release_save" \/ (out' # None /\ out'.op = "release")) =>
                \A t \in TableIds, i \in SeatInputs :
                    release_seat(c, t, i) =>
                        LET code == ReleaseMustAnswer(tables[t], i)
                        IN IF code # 200
                           THEN /\ out' = Failure("release", code)
                                /\ tables' = tables /\ holds' = holds
                           ELSE pc'[c] = "release_save"
          /\ pc[c] = "release_save" /\ pc'[c] # "release_save" =>
                out' # None /\ out'.op = "release" /\ out'.code = 200]_vars

C12_Witness == Sent("release") /\ out.code = 400

\* C18: of the confirm requests with one holdId at most one returns success
\* and every other returns 410: a confirm request that was in progress when
\* another with the same holdId returned success returns 410.  (A confirm
\* that begins after one succeeded finds the Hold deleted.)
C18_HoldIdSingleUse == Sent("confirm") /\ out.raced => out.code = 410

AtSave(c) == pc[c] \in {"hold_save", "confirm_save", "release_save", "sweep_save"}

\* The seat the handler of client c changed in its copy of the table.
OwnSeat(c) == IF req[c].op \in {"hold", "release"} THEN req[c].seatIndex ELSE hold[c].seatIndex

\* An operation on seat j of a table has just reported success, while client
\* c is about to write back its copy of that table, changed at another seat
\* and fetched before seat j was: at seat j the copy has the old status.
StaleCopy(c) ==
    /\ AtSave(c)
    /\ out # None /\ out.op \in {"hold", "confirm", "release"} /\ out.code = 200
    /\ out.tableId = tab[c].tableId
    /\ out.seatIndex # OwnSeat(c)
    /\ tab[c].seats[out.seatIndex].status # tables[out.tableId].seats[out.seatIndex].status

\* C19: a lost update is reachable.  Every write-back stores the whole table
\* as the handler fetched it and changed its own seat, whatever was stored
\* since, and the handler then reports success with no further test; so in
\* the reachable state C19_Witness, where an operation on another seat of
\* the table has reported success after the copy was fetched, the write-back
\* undoes that operation's seat change and both operations have succeeded.
C19_LostUpdate ==
    [][\A c \in Clients :
          /\ AtSave(c) /\ pc'[c] # pc[c] =>
                /\ tables'[tab[c].tableId] = tab[c]
                /\ pc'[c] = "idle" => out'.code = 200
          /\ pc[c] \in {"hold_create", "confirm_delete"} /\ pc'[c] # pc[c] =>
                out'.code = 200]_vars

C19_Witness == \E c \in Clients : StaleCopy(c)

\* C20: abandoned holds are reclaimed: with time advancing and the sweep run
\* repeatedly, a seat that is HELD becomes FREE or OCCUPIED.  Stated for the
\* seats that are HELD at time 0 with no hold request in progress: their
\* Holds have deadlines the model's clock passes.
C20_HeldIsReclaimed ==
    \A i \in 0..(Capacity - 1) :
        (clock = 0 /\ HoldsInProgress = 0 /\ Seat(TheTable, i).status = "HELD")
            ~> (Seat(TheTable, i).status # "HELD")

\* C13: GET /health always answers 200, also when a store call of the sweep
\* fails.
C13_HealthAlwaysOk == Sent("health") => out.code = 200

\* C14: whatever ttlSec a hold request carries, the Hold it creates has
\* expiresAt = the time of creation + 120 and its response has expiresIn =
\* 420: two requests that differ only in ttlSec get the same of both.
C14_DeadlineIgnoresTtlSec ==
    Sent("hold") /\ out.code = 200 =>
        /\ holds[out.holdId] # None
        /\ holds[out.holdId].expiresAt = clock + HOLD_TTL
        /\ out.expiresIn = EXPIRES_IN

C14_Witness == Sent("hold") /\ out.code = 200 /\ out.ttlSec # TTL_SEC_DEFAULT

lower_char(ch) ==
    CASE ch = "C" -> "c"
      [] ch = "S" -> "s"
      [] ch = "M" -> "m"
      [] OTHER -> ch

\* Two course codes that are the same but for the case of their letters.
SameCourse(a, b) ==
    /\ Len(a) = Len(b)
    /\ \A k \in 1..Len(a) : lower_char(a[k]) = lower_char(b[k])

\* What match must keep of the listed tables, by the claim.
MatchMustKeep(t, courses, open_only) ==
    /\ open_only => t.isOpenToJoin
    /\ courses # <<>> =>
          \E a \in t.courseCodes, k \in DOMAIN courses : SameCourse(a, courses[k])

\* C15: match returns exactly the listed tables that pass both filters:
\* with openOnly, those open to join; with a wanted course, those that list
\* one of the wanted courses, the case of letters apart; with no wanted
\* course, no filtering by course.
C15_MatchFilters ==
    Sent("match") /\ out.code = 200 =>
        out.items = {t \in out.listed : MatchMustKeep(t, out.courses, out.openOnly)}

\* openOnly with a wanted course: a table that lists it is dropped for not
\* being open, an open table for not listing it, and a table is kept that
\* lists it in another case.
C15_Witness ==
    /\ Sent("match") /\ out.code = 200 /\ out.openOnly /\ out.courses # <<>>
    /\ \E t \in out.listed \ out.items :
          ~t.isOpenToJoin /\ MatchMustKeep(t, out.courses, FALSE)
    /\ \E t \in out.listed \ out.items :
          t.isOpenToJoin /\ ~MatchMustKeep(t, out.courses, FALSE)
    /\ \E t \in out.items :
          t.courseCodes \cap {out.courses[k] : k \in DOMAIN out.courses} = {}

\* C16: a match with no floorId returns every stored table, whatever its
\* floorId, that passes the filters.
C16_MatchAllFloors ==
    Sent("match") /\ out.code = 200 /\ out.floorId = <<>> =>
        \A t \in StoredTables :
            MatchMustKeep(t, out.courses, out.openOnly) => t \in out.items

\* C17: listByFloor answers with exactly the stored tables of the floor, by
\* the index or, the index query failing, by the scan; it fails only if the
\* scan fails after the query.
C17_ListByFloor ==
    Sent("floor") =>
        /\ out.code = IF out.store.query \/ out.store.scan THEN 200 ELSE 500
        /\ out.code = 200 =>
              out.items = {t \in StoredTables : t.floorId = out.floorId}

C17_Witness ==
    /\ Sent("floor") /\ out.code = 200
    /\ ~out.store.query /\ out.store.scan
    /\ out.items # {} /\ out.items # StoredTables

\* C21: a sweep reclaims every hold of its scan that was past its deadline on
\* a HELD seat, and a store call that raises while one hold is handled leaves
\* at most that one hold unreclaimed: the others past their deadline are
\* still reclaimed in the same sweep.
Unreclaimed(swept) ==
    {h \in swept : holds[h.holdId] # None \/ Held(h.tableId, h.seatIndex)}

C21_SweepSurvivesFailure ==
    Sent("health") =>
        Cardinality(Unreclaimed(out.swept)) <= (IF out.code = 200 THEN 0 ELSE 1)

\* C22: when a sweep has run to completion, no Hold that was past its
\* deadline when the sweep scanned is left in the store, whatever the status
\* of its seat, and also when its table is missing or its seatIndex is out
\* of the table's bounds; so a sweep run again at once (the clock still at
\* the time of the first scan) finds no stored Hold past its deadline and
\* writes nothing.
C22_SweepRemovesExpired ==
    Sent("health") /\ out.code = 200 =>
        /\ \A h \in out.due : holds[h.holdId] = None
        /\ \A h \in StoredHolds : ~(h.expiresAt < out.began)

\* A completed sweep that found a Hold of a missing table past its deadline.
C22_Witness ==
    /\ Sent("health") /\ out.code = 200
    /\ out.began = clock
    /\ \E h \in out.due : tables[h.tableId] = None

\* The handler of client c makes the store call it is at.
Calls(c, call) == pc[c] = call /\ pc'[c] # call

\* The stored seat that the Hold fetched by client c references is FREE.
HoldSeatIsFree(c) ==
    /\ hold[c] # None
    /\ tables[hold[c].tableId] # None
    /\ hold[c].seatIndex \in DOMAIN tables[hold[c].tableId].seats
    /\ Seat(hold[c].tableId, hold[c].seatIndex).status = "FREE"

\* C23: confirm does not require the seat to be HELD: a confirm whose Hold is
\* present and whose seat is FREE (released after the hold) passes the
\* checks, writes the seat from FREE to OCCUPIED, deletes the Hold and
\* returns 200.
C23_ConfirmFromFree ==
    [][\A c \in Clients :
          /\ Calls(c, "confirm_get_table") /\ HoldSeatIsFree(c)
                => pc'[c] = "confirm_save"
          /\ Calls(c, "confirm_save") /\ HoldSeatIsFree(c)
                => /\ Seat(hold[c].tableId, hold[c].seatIndex)' .status = "OCCUPIED"
                   /\ pc'[c] = "confirm_delete"
          /\ Calls(c, "confirm_delete")
                => /\ holds'[req[c].holdId] = None
                   /\ out' # None /\ out'.op = "confirm" /\ out'.code = 200
                   /\ out'.holdId = req[c].holdId]_vars

\* A confirm about to write OCCUPIED over a FREE seat, its Hold present.
C23_Witness ==
    \E c \in Clients :
        /\ pc[c] = "confirm_save"
        /\ HoldSeatIsFree(c)
        /\ holds[req[c].holdId] # None
        /\ tab[c].seats[hold[c].seatIndex].status = "OCCUPIED"

\* C24: release leaves every Hold as it is, those that reference the released
\* seat included, and changes nothing of the stored table but the targeted
\* seat.
C24_ReleaseFrame ==
    [][\A c \in Clients :
          /\ Idle(c) /\ req'[c].op = "release" => tables' = tables /\ holds' = holds
          /\ Calls(c, "release_save") =>
                /\ holds' = holds
                /\ tables' = [tables EXCEPT
                       ![req[c].tableId].seats[req[c].seatIndex] =
                           tables'[req[c].tableId].seats[req[c].seatIndex]]]_vars

\* C25: a successful confirm stores the request's metadata on the table:
\* when it returns, the table's isOpenToJoin, courseCodes and topicTags are
\* those of the request.
C25_ConfirmStoresMetadata ==
    Sent("confirm") /\ out.code = 200 =>
        /\ tables[out.tableId].isOpenToJoin = out.body.isOpenToJoin
        /\ tables[out.tableId].courseCodes = out.body.courseCodes
        /\ tables[out.tableId].topicTags = out.body.topicTags

\* FREE to HELD, HELD or FREE to OCCUPIED, HELD to FREE, any to FREE.
AllowedTransitions ==
    {<<"FREE", "HELD">>, <<"HELD", "OCCUPIED">>, <<"FREE", "OCCUPIED">>,
     <<"HELD", "FREE">>, <<"OCCUPIED", "FREE">>}

\* C26: the status of a seat changes only along the allowed transitions; in
\* particular no step, of a sequential or an interleaved run, takes a seat
\* from OCCUPIED to HELD.
C26_AllowedTransitions ==
    [][\A s \in Seats :
          LET before == Seat(s[1], s[2]).status
              after == Seat(s[1], s[2])'.status
          IN before # after => <<before, after>> \in AllowedTransitions]_vars

\* C27: in every reachable state every stored table has as many seats as
\* its capacity, at the indices 0..capacity-1 and each with the seatId it
\* was seeded with, and its capacity is the seeded one: the bounds checks
\* against capacity (hold, release) and against len(seats) (confirm, sweep)
\* reject the same indices.
C27_SeatsMatchCapacity ==
    \A t \in TableIds :
        tables[t] # None =>
            /\ len(tables[t].seats) = tables[t].capacity
            /\ tables[t].capacity = Capacity
            /\ DOMAIN tables[t].seats = 0..(tables[t].capacity - 1)
            /\ \A i \in DOMAIN tables[t].seats :
                  tables[t].seats[i].seatId = SeedSeat(t, i).seatId
            /\ \A i \in SeatInputs :
                  (hold_check(tables[t], i) = 400) <=> (confirm_check(tables[t], i) = 400)

\* A release has just returned on a table with a seat OCCUPIED (by a hold and
\* its confirm) after a sweep has removed a Hold.
C27_Witness ==
    /\ Sent("release") /\ out.code = 200
    /\ \E s \in Seats : Seat(s[1], s[2]).status = "OCCUPIED"
    /\ \E k \in HoldIds : k <= uuids /\ holds[k] = None
    /\ clock > 0

Answers(op, code) == out' # None /\ out'.op = op /\ out'.code = code

\* C28: a stored Hold never changes; a Hold appears only in the step in which
\* a hold request returns its holdId; a Hold disappears only in the step in
\* which a confirm of its holdId returns success, or, its deadline passed, by
\* the sweep's delete or the store's own expiration; a step in which a
\* confirm answers a failure removes no Hold.
C28_HoldLifecycle ==
    [][/\ \A k \in DOMAIN holds :
             /\ holds[k] # None /\ holds'[k] # None => holds'[k] = holds[k]
             /\ holds[k] = None /\ holds'[k] # None =>
                   Answers("hold", 200) /\ out'.holdId = k
             /\ holds[k] # None /\ holds'[k] = None =>
                   \/ Answers("confirm", 200) /\ out'.holdId = k
                   \/ /\ holds[k].expiresAt < clock
                      /\ \E c \in Clients : Calls(c, "sweep_delete") /\ hold[c] = holds[k]
                   \/ /\ holds[k].expiresAt < clock
                      /\ out' = None /\ pc' = pc /\ tables' = tables
       /\ out' # None /\ out'.op = "confirm" /\ out'.code # 200 => holds' = holds]_vars

\* A confirm has failed on a Hold that is still stored, after another Hold
\* was created and removed.
C28_Witness ==
    /\ Sent("confirm") /\ out.code \in {400, 404, 409}
    /\ holds[OldHoldId] # None
    /\ \E k \in HoldIds : k <= uuids /\ holds[k] = None

\* C29: the sweep never frees a seat that is HELD under a Hold whose deadline
\* has not passed: its save takes a seat from HELD to FREE only if every
\* stored Hold that references the seat is past its deadline.
C29_SweepSparesLiveHold ==
    [][\A c \in Clients :
          Calls(c, "sweep_save") =>
              \A s \in Seats :
                  /\ Seat(s[1], s[2]).status = "HELD"
                  /\ Seat(s[1], s[2])'.status = "FREE"
                  => \A h \in HoldsOn(s[1], s[2]) : is_expired(h)]_vars

\* Sequential runs, client c in its sweep: the stored Holds that the sweep
\* has examined and left, their deadline not passed when it examined them
\* and still not passed.
ExaminedLive(c) == {h \in StoredHolds \ (scan[c] \cup {hold[c]}) : ~is_expired(h)}

\* C30: a Hold that was not past its deadline (expiresAt >= now) when the
\* sweep examined it is not deleted by that sweep, and that sweep does not
\* modify the seat it references: the sweep deletes only the Hold it found
\* past its deadline, and writes no seat that a Hold it has examined and
\* left references.
C30_SweepLeavesLive ==
    [][\A c \in Clients :
          /\ Calls(c, "sweep_loop") => holds' = holds /\ tables' = tables
          /\ Calls(c, "sweep_delete") =>
                /\ hold[c].expiresAt < clock
                /\ \A h \in ExaminedLive(c) : holds'[h.holdId] = h
          /\ Calls(c, "sweep_save") =>
                /\ holds' = holds
                /\ \A h \in ExaminedLive(c) :
                      tables[h.tableId] # None /\ h.seatIndex \in DOMAIN tables[h.tableId].seats
                      => Seat(h.tableId, h.seatIndex)' = Seat(h.tableId, h.seatIndex)]_vars

\* A hold request is in progress on seat i of table t.
HoldInProgressOn(t, i) ==
    \E c \in Clients : Holding(c) /\ req[c].tableId = t /\ req[c].seatIndex = i

\* C31: whenever no hold request is in progress on it, a seat whose status is
\* HELD is referenced by at least one stored Hold: there is no orphaned HELD
\* seat, also after create_hold failed behind a successful save_table and
\* after the store's own expiration removed a Hold.
C31_NoOrphanedHeldSeat ==
    \A s \in Seats :
        Seat(s[1], s[2]).status = "HELD" /\ ~HoldInProgressOn(s[1], s[2])
            => HoldsOn(s[1], s[2]) # {}

====
